---- MODULE Spec2Model ----
(***************************************************************************)
(* ChatInterface (message list, dispatch, calendar-event polling) and the  *)
(* part of Dashboard that owns the active session, as a state machine.     *)
(*                                                                         *)
(* React state is modelled with the values of the last committed render.   *)
(* A handler closes over the render in which it was created: the values of *)
(* sessionId and messages it reads after an await are the ones of that     *)
(* render, kept here in the record of the send.  Message objects are       *)
(* shared between every copy of the list ([...messages] is a shallow       *)
(* copy), so the actions arrays live in a heap (acts) and a turn holds a   *)
(* reference to its array.                                                 *)
(***************************************************************************)
EXTENDS Integers, Sequences, FiniteSets, TLC

\* ------------------------------------------------------------------ bounds
MaxSends == 1         \* accepted submits in one behaviour
MaxSwitches == 2      \* sidebar clicks (select a session / new chat)
WideSends == 2        \* accepted submits where two poll chains are wanted
MaxAuthOps == 3       \* calls of login and logout

\* --------------------------------------------------------------- constants
NewChat == "new"
NoSession == "none"
Sessions == <<"A", "B">>          \* identifiers the server issues, in order
SessionIds == {Sessions[i] : i \in 1..Len(Sessions)}

PENDING == "calendar_event_pending"
CREATED == "calendar_event_created"
FAILED == "calendar_event_failed"
NEEDS_AUTH == "calendar_event_needs_auth"

\* What the server can put in the actions of a reply: type and summary.
ReplyTemplates ==
  { <<>>,
    << [type |-> PENDING, summary |-> "s1"] >>,
    << [type |-> CREATED, summary |-> "s1"] >>,
    << [type |-> PENDING, summary |-> "s1"], [type |-> PENDING, summary |-> "s2"] >> }

Inputs == {"", " ", "hi"}
Tokens == << "t1", "t2" >>
Users == << "u1", "u2" >>
NoToken == "null"
NoUser == "null"
ErrorText == "Sorry, I encountered an error processing your request. Please try again."

VARIABLES
  \* ChatInterface
  messages,     \* useState([]): the list of turns
  acts,         \* heap of actions arrays, shared by all copies of the list
  orig,         \* per heap slot, the event and type it was created with
  isLoading,    \* useState(false)
  sends,        \* one record per accepted submit: its closure, request, poll chain
  loads,        \* fetchChatHistory requests in flight, per session
  \* Dashboard
  activeChatId, \* useState('new'), passed down as sessionId
  chatSessions, \* useState([])
  dashLoading,  \* useState(true)
  fetches,      \* fetchChatSessions requests in flight, per continuation
  \* server
  hist,         \* per session, the stored turns
  srvSessions,  \* sessions by last activity, most recent first
  \* bookkeeping
  clock,        \* number of turns created so far (turn identities)
  nextEv,       \* number of calendar events requested so far
  sendsLeft,    \* submits the user still makes
  switchesLeft, \* sidebar clicks the user still makes
  \* AuthProvider
  user,         \* useState(null)
  token,        \* useState(localStorage.getItem('token') || null)
  loading,      \* useState(true)
  storedToken,  \* localStorage item 'token'
  userLoads,    \* GET /api/user/me requests in flight, per token
  authLeft      \* calls of login and logout still made

vars == << messages, acts, orig, isLoading, sends, loads, activeChatId,
           chatSessions, dashLoading, fetches, hist, srvSessions, clock,
           nextEv, sendsLeft, switchesLeft,
           user, token, loading, storedToken, userLoads, authLeft >>

authVars == << user, token, loading, storedToken, userLoads, authLeft >>

userVars == << sendsLeft, switchesLeft >>
chatVars == << messages, acts, orig, isLoading, sends, loads >>
dashVars == << activeChatId, chatSessions, dashLoading, fetches >>
srvVars == << hist, srvSessions, nextEv >>

sessionId == activeChatId

\* ----------------------------------------------------------------- helpers
Range(s) == {s[i] : i \in 1..Len(s)}

\* String.prototype.trim on the inputs of the model
Trim(str) == IF str = " " THEN "" ELSE str

\* Array.prototype.findIndex / find: the least index of a set of hits, 0 if none
FirstOf(hits) ==
  IF hits = {} THEN 0 ELSE CHOOSE i \in hits : \A j \in hits : i <= j

IsCalendarReply(actions) ==
  \E i \in 1..Len(actions) : actions[i].type \in {CREATED, PENDING}

UserTurn(text, t) ==
  [role |-> "user", content |-> text, isError |-> FALSE, actions |-> 0, tid |-> t]

\* a reply turn that leaves the actions of the reply out
AssistantTurnBare(text, ref, t) ==
  [role |-> "assistant", content |-> text, isError |-> FALSE, actions |-> 0, tid |-> t]

AssistantTurn(text, ref, t) ==
  [role |-> "assistant", content |-> text, isError |-> FALSE, actions |-> ref, tid |-> t]

\* an error turn that is not marked
ErrorTurnUnmarked(t) ==
  [role |-> "assistant", content |-> ErrorText, isError |-> FALSE, actions |-> 0, tid |-> t]

ErrorTurn(t) ==
  [role |-> "assistant", content |-> ErrorText, isError |-> TRUE, actions |-> 0, tid |-> t]

NoAction == [type |-> "none", summary |-> "", ev |-> 0]

\* a findIndex that also stops at a created action
IsPendingOrCreated(a) == a.type \in {PENDING, CREATED}

IsPending(a) == a.type = PENDING

\* lines 163-165: actions.findIndex(action => action.type === 'calendar_event_pending')
FindPendingIndex(actions) ==
  FirstOf({i \in 1..Len(actions) : IsPending(actions[i])})

\* lines 172-177: the predicate of historyItem.actions.find
IsMatch(action, pendingAct) ==
  action.type = CREATED /\ action.summary = pendingAct.summary

FindMatchIndex(actions, pendingAct) ==
  FirstOf({i \in 1..Len(actions) : IsMatch(actions[i], pendingAct)})

\* lines 170-187: the history is scanned in the order received; in each item
\* that has actions, the first created action with the pending one's summary
FindCreated(history, pendingAct) ==
  LET items == {h \in 1..Len(history) :
                  FindMatchIndex(history[h].actions, pendingAct) # 0}
  IN  IF items = {} THEN NoAction
      ELSE history[FirstOf(items)].actions[
             FindMatchIndex(history[FirstOf(items)].actions, pendingAct)]

\* an index that points at the last action of the array instead
PendingIndexLast(message, heap) ==
  IF message.role = "assistant" /\ message.actions # 0
     /\ FindPendingIndex(heap[message.actions]) # 0
  THEN Len(heap[message.actions]) ELSE 0

\* lines 160-165: the index of the first pending action of an assistant
\* message that has actions, 0 for any other message
PendingIndex(message, heap) ==
  IF message.role = "assistant" /\ message.actions # 0
  THEN FindPendingIndex(heap[message.actions]) ELSE 0

\* lines 167-187: the history entry that replaces that action, if any
CreatedFor(message, heap, history) ==
  IF PendingIndex(message, heap) = 0 THEN NoAction
  ELSE FindCreated(history, heap[message.actions][PendingIndex(message, heap)])

\* lines 160-190: every message of the copy, from the last to the first, has
\* its first pending action overwritten in place when the history holds a
\* match; the inner break leaves the history loop only.  Each message has an
\* array of its own, so the arrays are rewritten independently of the order.
ScanMessages(snap, heap, history) ==
  LET hit(r) == {i \in 1..Len(snap) :
                   snap[i].actions = r /\ CreatedFor(snap[i], heap, history) # NoAction}
  IN  [heap |-> [r \in 1..Len(heap) |->
                   IF hit(r) = {} THEN heap[r]
                   ELSE LET message == snap[CHOOSE i \in hit(r) : TRUE]
                        IN  [heap[r] EXCEPT ![PendingIndex(message, heap)] =
                                              CreatedFor(message, heap, history)]],
       updated |-> \E r \in 1..Len(heap) : hit(r) # {}]

\* lines 24-30: history.map(...); every item with actions brings a new array
WithActions(history, n) == {h \in 1..n : Len(history[h].actions) > 0}

FormatRef(history, heap, h) ==
  IF Len(history[h].actions) = 0 THEN 0
  ELSE Len(heap) + Cardinality(WithActions(history, h))

FormatMessages(history, heap) ==
  [h \in 1..Len(history) |->
     [role |-> history[h].role, content |-> history[h].content, isError |-> FALSE,
      actions |-> FormatRef(history, heap, h), tid |-> history[h].tid]]

RECURSIVE FormatHeap(_, _, _)
FormatHeap(history, heap, h) ==
  IF h > Len(history) THEN heap
  ELSE FormatHeap(history,
                  IF Len(history[h].actions) = 0 THEN heap
                  ELSE Append(heap, history[h].actions),
                  h + 1)

\* what an array held when it was created: per slot, the event and the type
Born(actions) ==
  [i \in 1..Len(actions) |-> [ev |-> actions[i].ev, type |-> actions[i].type]]

\* lines 39-45: the effect that runs when the sessionId prop changes
EffectMessages(old, new, msgs) ==
  IF new = old \/ new # NewChat THEN msgs ELSE <<>>

EffectLoads(old, new, lds) ==
  IF new # old /\ new # NewChat THEN [lds EXCEPT ![new] = @ + 1] ELSE lds

\* The heap keeps only the arrays some list still refers to, numbered in the
\* order the lists meet them (the current list first, then the closures).
RefsOf(list) == [i \in 1..Len(list) |-> list[i].actions]

RECURSIVE AllRefs(_, _, _)
AllRefs(ms, ss, k) ==
  IF k > Len(ss) THEN <<>>
  ELSE SelectSeq(RefsOf(IF k = 0 THEN ms ELSE ss[k].snap), LAMBDA r : r # 0)
       \o AllRefs(ms, ss, k + 1)

\* the first occurrence of every element, in order
Dedupe(seq) ==
  LET keep == {i \in 1..Len(seq) : \A j \in 1..(i - 1) : seq[j] # seq[i]}
  IN  [n \in 1..Cardinality(keep) |->
         seq[CHOOSE i \in keep : Cardinality({j \in keep : j < i}) = n - 1]]

Renumber(order, list) ==
  [i \in 1..Len(list) |->
     [list[i] EXCEPT !.actions =
        IF @ = 0 THEN 0 ELSE CHOOSE n \in 1..Len(order) : order[n] = @]]

Commit(ms, ss, heap, origin) ==
  \E list \in {ms}, records \in {ss}, arrays \in {heap}, born \in {origin} :
    \E order \in {Dedupe(AllRefs(list, records, 0))} :
      /\ messages' = Renumber(order, list)
      /\ sends' = [k \in 1..Len(records) |->
                     [records[k] EXCEPT !.snap = Renumber(order, @)]]
      /\ acts' = [n \in 1..Len(order) |-> arrays[order[n]]]
      /\ orig' = [n \in 1..Len(order) |-> born[order[n]]]

\* ------------------------------------------------------------------ server
\* POST /api/chat: the session of the request, a new one for session_id null
ServerSession(sid) ==
  IF sid # NoSession THEN sid
  ELSE IF Len(srvSessions) < Len(Sessions) THEN Sessions[Len(srvSessions) + 1]
  ELSE NoSession

Instantiate(template, ev0) ==
  [i \in 1..Len(template) |->
     [type |-> template[i].type, summary |-> template[i].summary, ev |-> ev0 + i]]

Touch(s) == <<s>> \o SelectSeq(srvSessions, LAMBDA x : x # s)

Item(role, actions, t) ==
  [role |-> role, content |-> IF role = "user" THEN "hi" ELSE "reply",
   actions |-> actions, tid |-> t]

\* The turns a session can already hold on the server when the page is opened.
StoredHistory ==
  << Item("user", <<>>, 1),
     Item("assistant", << [type |-> PENDING, summary |-> "s1", ev |-> 1] >>, 2),
     Item("user", <<>>, 3),
     Item("assistant", << [type |-> PENDING, summary |-> "s1", ev |-> 2] >>, 4) >>

InitialHistories == { <<>>, StoredHistory }

\* ------------------------------------------------------------------- state
\* The page after Dashboard's first fetchChatSessions has settled: with a stored
\* session the most recent one is active and its history is being fetched.
InitWith(h0, nSends, nSwitches) ==
  /\ messages = <<>>
  /\ acts = <<>>
  /\ orig = <<>>
  /\ isLoading = FALSE
  /\ sends = <<>>
  /\ hist = [s \in SessionIds |-> IF s = Sessions[1] THEN h0 ELSE <<>>]
  /\ srvSessions = IF h0 = <<>> THEN <<>> ELSE << Sessions[1] >>
  /\ chatSessions = srvSessions
  /\ activeChatId = IF h0 = <<>> THEN NewChat ELSE Sessions[1]
  /\ loads = [s \in SessionIds |-> IF h0 # <<>> /\ s = Sessions[1] THEN 1 ELSE 0]
  /\ dashLoading = FALSE
  /\ fetches = [c \in SessionIds |-> 0]
  /\ clock = Len(h0)
  /\ nextEv = Len(h0) \div 2
  /\ sendsLeft = nSends
  /\ switchesLeft = nSwitches

\* ------------------------------------------------------------- AuthProvider
\* GET /api/user/me: the user a token belongs to
UserOf(t) == IF t = Tokens[1] THEN Users[1] ELSE Users[2]

\* the effect of [token]: loadUser runs after a render in which token changed;
\* with a token it sends the request, without one it only clears loading
EffectUserLoads(old, new, lds) ==
  IF new # old /\ new # NoToken THEN [lds EXCEPT ![new] = @ + 1] ELSE lds

EffectLoading(old, new, flag) ==
  IF new # old /\ new = NoToken THEN FALSE ELSE flag

\* The page is open on the Dashboard: token stored, user loaded.
AuthIdle ==
  /\ user = Users[1]
  /\ token = Tokens[1]
  /\ storedToken = Tokens[1]
  /\ loading = FALSE
  /\ userLoads = [t \in Range(Tokens) |-> 0]
  /\ authLeft = 0

\* AuthProvider after its first render and effect, with the token that
\* localStorage held (none, or one of an earlier visit)
AuthMounted(t0) ==
  /\ user = NoUser
  /\ token = t0
  /\ storedToken = t0
  /\ loading = (t0 # NoToken)
  /\ userLoads = [t \in Range(Tokens) |-> IF t = t0 THEN 1 ELSE 0]
  /\ authLeft = MaxAuthOps

\* login(userData, authToken)
Login(userData, authToken) ==
  /\ authLeft > 0
  /\ authLeft' = authLeft - 1
  /\ user' = userData
  /\ token' = authToken
  /\ storedToken' = authToken
  /\ userLoads' = EffectUserLoads(token, authToken, userLoads)
  /\ loading' = EffectLoading(token, authToken, loading)
  /\ UNCHANGED << chatVars, dashVars, srvVars, clock, userVars >>

\* logout()
Logout ==
  /\ authLeft > 0
  /\ authLeft' = authLeft - 1
  /\ user' = NoUser
  /\ token' = NoToken
  /\ storedToken' = NoToken
  /\ userLoads' = EffectUserLoads(token, NoToken, userLoads)
  /\ loading' = EffectLoading(token, NoToken, loading)
  /\ UNCHANGED << chatVars, dashVars, srvVars, clock, userVars >>

\* the catch of loadUser removes the stored token and calls setToken(null);
\* it does not call setUser
UserAfterFailedLoad(current) == current

\* the request of a loadUser started for token t settles; setLoading(false)
\* follows in both cases
LoadUserDone(t, ok) ==
  /\ userLoads[t] > 0
  /\ userLoads' = [userLoads EXCEPT ![t] = @ - 1]
  /\ IF ok
     THEN /\ user' = UserOf(t)
          /\ UNCHANGED << token, storedToken >>
     ELSE /\ user' = UserAfterFailedLoad(user)
          /\ token' = NoToken
          /\ storedToken' = NoToken
  /\ loading' = FALSE
  /\ UNCHANGED << authLeft, chatVars, dashVars, srvVars, clock, userVars >>

NextAuth ==
  \/ \E userData \in Range(Users), authToken \in Range(Tokens) : Login(userData, authToken)
  \/ Logout
  \/ \E t \in Range(Tokens), ok \in BOOLEAN : LoadUserDone(t, ok)

InitAuth ==
  /\ InitWith(<<>>, 0, 0)
  /\ \E t0 \in Range(Tokens) \cup {NoToken} : AuthMounted(t0)

SpecAuth == InitAuth /\ [][NextAuth]_vars

Init == AuthIdle /\ \E h0 \in InitialHistories : InitWith(h0, MaxSends, MaxSwitches)

\* ----------------------------------------------------------- ChatInterface
\* a setMessages that puts the turn in front
PrependTurn(prev, turn) == <<turn>> \o prev

\* setMessages(prev => [...prev, turn])
AppendTurn(prev, turn) == Append(prev, turn)

\* a trigger that looks for created events only
StartsPollCreatedOnly(newActions) ==
  \E i \in 1..Len(newActions) : newActions[i].type = CREATED

\* line 86: session_id: sessionId === 'new' ? null : sessionId
RequestSession(closureSid) ==
  IF closureSid = NewChat THEN NoSession ELSE closureSid

\* a forwarding that does not look at the sessionId prop
CallsOnNewSessionAlways(closureSid, responseSid) == responseSid # NoSession

\* line 109: sessionId === 'new' && response.data.session_id
CallsOnNewSession(closureSid, responseSid) ==
  closureSid = NewChat /\ responseSid # NoSession

\* a finally that leaves the flag set
DispatchFinallySkipped == TRUE

\* line 135: setIsLoading(false)
DispatchFinally == FALSE

\* line 116: the reply starts a poll when it carries a created or pending event
StartsPoll(newActions) == IsCalendarReply(newActions)

\* line 119: response.data.session_id || sessionId
PollSession(responseSid, closureSid) ==
  IF responseSid # NoSession THEN responseSid ELSE closureSid

\* line 143: early return of checkCalendarEventStatus (the token is present)
PollSkipped(chatSessionId) == chatSessionId \in {NoSession, NewChat}

\* line 156: [...messages], the list of the render that created the handler
PollCopy(closureMessages, current) == closureMessages

\* lines 193-202: what the list becomes after a poll
PollWrite(updated, updatedMessages, current) ==
  IF updated THEN updatedMessages ELSE current

\* a poll that stops the chain whether or not it replaced something
PollNextStops(updated) == IF updated THEN "written" ELSE "stopped"

\* a poll that re-arms the timer whether or not it replaced something
PollNextAlways(updated) == "retry"

\* lines 193-202: the chain goes on only when nothing was replaced; "retry"
\* is the timer set at line 198, "timer" the one set at line 118
PollNext(updated) == IF updated THEN "written" ELSE "retry"

\* lines 203-205: the catch of a failed GET schedules nothing
PollAfterError == "failed"

\* a timer of the chain is set
Armed(send) == send.chain \in {"timer", "retry"}

Running(send) == Armed(send) \/ send.chain = "inflight"

\* a poll chain that is over keeps nothing of its closure
EndChain(send, how) ==
  [send EXCEPT !.chain = how, !.snap = <<>>, !.chainSid = NoSession, !.left = FALSE]

\* the first pending event of a reply, 0 when it has none
FirstPendingEv(newActions) ==
  IF FindPendingIndex(newActions) = 0 THEN 0
  ELSE newActions[FindPendingIndex(newActions)].ev

\* the sessionId prop leaves the session of a running chain
Leave(ss, old, new) ==
  [k \in 1..Len(ss) |->
     IF new # old /\ Running(ss[k]) /\ ss[k].chainSid = old
     THEN [ss[k] EXCEPT !.left = TRUE] ELSE ss[k]]

\* a guard that does not look at isLoading
RejectsBlankOnly(input, busy) == Trim(input) = ""

\* line 64: if (!input.trim() || isLoading) return
Rejects(input, busy) == Trim(input) = "" \/ busy

\* a message_history in the opposite order
MessageHistoryReversed(list) ==
  [i \in 1..Len(list) |->
     [role |-> list[Len(list) + 1 - i].role, content |-> list[Len(list) + 1 - i].content]]

\* lines 82-85: messages.map(msg => ({role: msg.role, content: msg.content}))
MessageHistory(list) ==
  [i \in 1..Len(list) |-> [role |-> list[i].role, content |-> list[i].content]]

\* lines 79-87: the request of the POST, built from the closure of the submit
Payload(send) ==
  [prompt |-> send.prompt,
   message_history |-> MessageHistory(send.snap),
   session_id |-> RequestSession(send.sid)]

\* lines 61-92, up to the await of the POST
HandleSendMessage(input) ==
  /\ ~Rejects(input, isLoading)
  /\ sendsLeft > 0
  /\ sendsLeft' = sendsLeft - 1
  /\ Commit(AppendTurn(messages, UserTurn(input, clock + 1)),
            Append(sends,
              [sid |-> sessionId, snap |-> messages, prompt |-> input,
               pc |-> "inflight", chain |-> "none", chainSid |-> NoSession,
               left |-> FALSE, utid |-> clock + 1, rev |-> 0, told |-> NoSession]),
            acts, orig)
  /\ isLoading' = TRUE
  /\ clock' = clock + 1
  /\ UNCHANGED << loads, dashVars, srvVars, switchesLeft >>
  /\ UNCHANGED authVars

\* lines 92-121 and 134-138: the POST succeeds.  The server stores the two
\* turns and answers in the same step.
DispatchSuccess(k, template) ==
  /\ k \in 1..Len(sends)
  /\ sends[k].pc = "inflight"
  /\ LET s == ServerSession(Payload(sends[k]).session_id)
         newActions == Instantiate(template, nextEv)
         ref == IF Len(newActions) = 0 THEN 0 ELSE Len(acts) + 1
         polls == StartsPoll(newActions)
     IN  /\ s # NoSession
         /\ hist' = [hist EXCEPT ![s] = @ \o
               << Item("user", <<>>, clock + 1),
                  Item("assistant", newActions, clock + 2) >>]
         /\ srvSessions' = Touch(s)
         /\ nextEv' = nextEv + Len(template)
         /\ Commit(AppendTurn(messages, AssistantTurn("reply", ref, clock + 3)),
                   [sends EXCEPT ![k] =
                      [sid |-> NoSession, prompt |-> "", pc |-> "ok", utid |-> 0,
                       snap |-> IF polls THEN @.snap ELSE <<>>,
                       chain |-> IF polls THEN "timer" ELSE "none",
                       chainSid |-> IF polls THEN PollSession(s, @.sid) ELSE NoSession,
                       left |-> FALSE, rev |-> FirstPendingEv(newActions),
                       told |-> IF CallsOnNewSession(@.sid, s) THEN s ELSE NoSession]],
                   IF ref = 0 THEN acts ELSE Append(acts, newActions),
                   IF ref = 0 THEN orig ELSE Append(orig, Born(newActions)))
         /\ clock' = clock + 3
         /\ IF CallsOnNewSession(sends[k].sid, s)
            THEN /\ dashLoading' = TRUE
                 /\ fetches' = [fetches EXCEPT ![s] = @ + 1]
            ELSE UNCHANGED << dashLoading, fetches >>
         /\ isLoading' = DispatchFinally
  /\ UNCHANGED << loads, activeChatId, chatSessions, userVars >>
  /\ UNCHANGED authVars

\* lines 122-138: the POST fails
DispatchFailure(k) ==
  /\ k \in 1..Len(sends)
  /\ sends[k].pc = "inflight"
  /\ Commit(AppendTurn(messages, ErrorTurn(clock + 1)),
            [sends EXCEPT ![k] =
               [sid |-> NoSession, prompt |-> "", pc |-> "failed", utid |-> 0,
                snap |-> <<>>, chain |-> "none", chainSid |-> NoSession,
                left |-> FALSE, rev |-> 0, told |-> NoSession]],
            acts, orig)
  /\ clock' = clock + 1
  /\ isLoading' = DispatchFinally
  /\ UNCHANGED << loads, dashVars, srvVars, userVars >>
  /\ UNCHANGED authVars

\* lines 118-120 / 198-201 and 142-150: the timer fires; the GET is sent
\* unless the session is missing
PollTimerFire(k) ==
  /\ k \in 1..Len(sends)
  /\ Armed(sends[k])
  /\ Commit(messages,
            [sends EXCEPT ![k] = IF PollSkipped(@.chainSid)
                                 THEN EndChain(@, "skipped")
                                 ELSE [@ EXCEPT !.chain = "inflight"]],
            acts, orig)
  /\ UNCHANGED << isLoading, loads, dashVars, srvVars, clock, userVars >>
  /\ UNCHANGED authVars

\* lines 152-202: the GET of the history succeeds
PollSuccess(k) ==
  /\ k \in 1..Len(sends)
  /\ sends[k].chain = "inflight"
  /\ LET updatedHistory == hist[sends[k].chainSid]
         updatedMessages == PollCopy(sends[k].snap, messages)
     IN  \E r \in {ScanMessages(updatedMessages, acts, updatedHistory)} :
         Commit(PollWrite(r.updated, updatedMessages, messages),
                [sends EXCEPT ![k] =
                   IF PollNext(r.updated) = "retry" THEN [@ EXCEPT !.chain = "retry"]
                   ELSE EndChain(@, PollNext(r.updated))],
                r.heap, orig)
  /\ UNCHANGED << isLoading, loads, dashVars, srvVars, clock, userVars >>
  /\ UNCHANGED authVars

\* lines 203-205: the GET fails; the catch only logs
PollFailure(k) ==
  /\ k \in 1..Len(sends)
  /\ sends[k].chain = "inflight"
  /\ Commit(messages,
            [sends EXCEPT ![k] =
               IF PollAfterError = "retry" THEN [@ EXCEPT !.chain = "retry"]
               ELSE EndChain(@, PollAfterError)],
            acts, orig)
  /\ UNCHANGED << isLoading, loads, dashVars, srvVars, clock, userVars >>
  /\ UNCHANGED authVars

\* lines 14-36: a fetchChatHistory request for session s settles
LoadDone(s, ok) ==
  /\ loads[s] > 0
  /\ loads' = [loads EXCEPT ![s] = @ - 1]
  /\ IF ok
     THEN Commit(FormatMessages(hist[s], acts), sends,
                 FormatHeap(hist[s], acts, 1),
                 orig \o [n \in 1..Cardinality(WithActions(hist[s], Len(hist[s]))) |->
                            Born(FormatHeap(hist[s], acts, 1)[Len(acts) + n])])
     ELSE UNCHANGED << messages, sends, acts, orig >>
  /\ UNCHANGED << isLoading, dashVars, srvVars, clock, userVars >>
  /\ UNCHANGED authVars

\* --------------------------------------------------------------- Dashboard
\* setActiveChatId(new) as ChatInterface sees it: the effect of lines 39-45
SetActive(new) ==
  /\ activeChatId' = new
  /\ loads' = EffectLoads(activeChatId, new, loads)
  /\ Commit(EffectMessages(activeChatId, new, messages),
            Leave(sends, activeChatId, new), acts, orig)

\* lines 23-29: a fetch that succeeds with a non-empty list selects its first
\* session; a failed fetch and an empty list leave activeChatId alone
ActiveAfterFetch(ok, list, old) ==
  IF ok /\ Len(list) > 0 THEN list[1] ELSE old

\* a handleNewSession that keeps what the fetch selected
KeepsFetched(id, fetched) == fetched

\* line 66: setActiveChatId(sessionId) after the awaited fetch
ActiveAfterNewSession(id, fetched) == id

\* two assignments of activeChatId in a row: ChatInterface renders with the
\* first value in between when the two are not batched into one render
\* (rendered = the old value when they are)
SetActiveVia(rendered, new) ==
  /\ activeChatId' = new
  /\ loads' = EffectLoads(rendered, new, EffectLoads(activeChatId, rendered, loads))
  /\ Commit(EffectMessages(rendered, new,
                           EffectMessages(activeChatId, rendered, messages)),
            Leave(Leave(sends, activeChatId, rendered), rendered, new), acts, orig)

\* lines 60-62
HandleChatSelect(s) ==
  /\ ~dashLoading
  /\ s \in Range(chatSessions)
  /\ s # activeChatId
  /\ switchesLeft > 0
  /\ switchesLeft' = switchesLeft - 1
  /\ SetActive(s)
  /\ UNCHANGED << isLoading, chatSessions, dashLoading, fetches, srvVars, clock,
                  sendsLeft >>
  /\ UNCHANGED authVars

\* lines 69-71
HandleCreateNewChat ==
  /\ activeChatId # NewChat
  /\ switchesLeft > 0
  /\ switchesLeft' = switchesLeft - 1
  /\ SetActive(NewChat)
  /\ UNCHANGED << isLoading, chatSessions, dashLoading, fetches, srvVars, clock,
                  sendsLeft >>
  /\ UNCHANGED authVars

\* lines 15-43 after the await, then line 66: the fetchChatSessions awaited by
\* handleNewSession(c) settles.  The state updates of the continuation are
\* rendered together.
FetchSessionsDone(c, ok) ==
  /\ fetches[c] > 0
  /\ fetches' = [fetches EXCEPT ![c] = @ - 1]
  /\ chatSessions' = IF ok THEN srvSessions ELSE <<>>
  /\ \E rendered \in {activeChatId, ActiveAfterFetch(ok, srvSessions, activeChatId)} :
       SetActiveVia(rendered,
                    ActiveAfterNewSession(c, ActiveAfterFetch(ok, srvSessions, activeChatId)))
  /\ dashLoading' = FALSE
  /\ UNCHANGED << isLoading, srvVars, clock, userVars >>
  /\ UNCHANGED authVars

\* ------------------------------------------------------------------ server
\* the calendar request behind a pending action completes
ServerResolve(s, h, j, outcome) ==
  /\ h \in 1..Len(hist[s])
  /\ j \in 1..Len(hist[s][h].actions)
  /\ hist[s][h].actions[j].type = PENDING
  /\ hist' = [hist EXCEPT ![s][h].actions[j].type = outcome]
  /\ UNCHANGED << chatVars, dashVars, srvSessions, nextEv, clock, userVars >>
  /\ UNCHANGED authVars

Next ==
  \/ \E input \in Inputs : HandleSendMessage(input)
  \/ \E k \in 1..Len(sends), t \in ReplyTemplates : DispatchSuccess(k, t)
  \/ \E k \in 1..Len(sends) : DispatchFailure(k)
  \/ \E k \in 1..Len(sends) : PollTimerFire(k)
  \/ \E k \in 1..Len(sends) : PollSuccess(k)
  \/ \E k \in 1..Len(sends) : PollFailure(k)
  \/ \E s \in SessionIds, ok \in BOOLEAN : LoadDone(s, ok)
  \/ \E s \in SessionIds : HandleChatSelect(s)
  \/ HandleCreateNewChat
  \/ \E c \in SessionIds, ok \in BOOLEAN : FetchSessionsDone(c, ok)
  \/ \E s \in SessionIds : \E h \in 1..Len(hist[s]) :
       \E j \in 1..Len(hist[s][h].actions) : ServerResolve(s, h, j, CREATED)

Spec == Init /\ [][Next]_vars

\* --------------------------------------------------------- specifications
\* Two submits and no sidebar click: two poll chains can run side by side.
NextTwo ==
  \/ \E input \in Inputs : HandleSendMessage(input)
  \/ \E k \in 1..Len(sends), t \in ReplyTemplates : DispatchSuccess(k, t)
  \/ \E k \in 1..Len(sends) : DispatchFailure(k)
  \/ \E k \in 1..Len(sends) : PollTimerFire(k)
  \/ \E k \in 1..Len(sends) : PollSuccess(k)
  \/ \E k \in 1..Len(sends) : PollFailure(k)
  \/ \E s \in SessionIds, ok \in BOOLEAN : LoadDone(s, ok)
  \/ \E c \in SessionIds, ok \in BOOLEAN : FetchSessionsDone(c, ok)
  \/ \E s \in SessionIds : \E h \in 1..Len(hist[s]) :
       \E j \in 1..Len(hist[s][h].actions) : ServerResolve(s, h, j, CREATED)

InitTwo == AuthIdle /\ \E h0 \in InitialHistories : InitWith(h0, WideSends, 0)

SpecTwo == InitTwo /\ [][NextTwo]_vars

\* A timer that is set fires, and every request that was sent settles.
FairSpec ==
  /\ Spec
  /\ \A k \in 1..MaxSends :
       /\ WF_vars(DispatchFailure(k) \/ \E t \in ReplyTemplates : DispatchSuccess(k, t))
       /\ WF_vars(PollTimerFire(k))
       /\ WF_vars(PollFailure(k) \/ PollSuccess(k))
  /\ \A s \in SessionIds :
       /\ WF_vars(\E ok \in BOOLEAN : LoadDone(s, ok))
       /\ WF_vars(\E ok \in BOOLEAN : FetchSessionsDone(s, ok))

\* ------------------------------------------------------------- properties
Tids(list) == {list[i].tid : i \in 1..Len(list)}

\* a poll of chain k ends in setMessages(updatedMessages)
ChainWrites(k) ==
  /\ k \in 1..Len(sends)
  /\ sends[k].chain = "inflight"
  /\ sends'[k].chain = "written"

\* the history holds a created action with the summary of send k's pending one
HistoryHasMatch(k) ==
  /\ k \in 1..Len(sends)
  /\ sends[k].rev # 0
  /\ \E s \in SessionIds : \E h1 \in 1..Len(hist[s]), h2 \in 1..Len(hist[s]) :
       \E j1 \in 1..Len(hist[s][h1].actions), j2 \in 1..Len(hist[s][h2].actions) :
          /\ hist[s][h1].actions[j1].ev = sends[k].rev
          /\ hist[s][h2].actions[j2].type = CREATED
          /\ hist[s][h2].actions[j2].summary = hist[s][h1].actions[j1].summary

PollFailed(k) == k \in 1..Len(sends) /\ sends[k].chain = "failed"

\* the list shows a created action in the slot made for the pending event of send k
Resolved(k) ==
  /\ k \in 1..Len(sends)
  /\ sends[k].rev # 0
  /\ \E i \in 1..Len(messages) :
       /\ messages[i].actions # 0
       /\ \E j \in 1..Len(acts[messages[i].actions]) :
            /\ orig[messages[i].actions][j].ev = sends[k].rev
            /\ acts[messages[i].actions][j].type = CREATED

\* C1: in a session that stays the active one, when the reply of send k
\* carries a pending action, the history from some point on holds a created
\* action with its summary and no poll of the chain fails, the slot of that
\* pending action in the message list eventually holds a created action.
C1Resolution ==
  \A k \in 1..MaxSends :
     ( /\ [](activeChatId = Sessions[1])
       /\ <>[]HistoryHasMatch(k)
       /\ []~PollFailed(k) )
     => <>Resolved(k)

\* C2: the setMessages of a poll removes no turn: every turn of the list
\* before the write of a chain is in the list after it.
C2NoLostTurn ==
  [][\A k \in 1..Len(sends) :
       ChainWrites(k) => Tids(messages) \subseteq Tids(messages')]_vars

\* C3: the turns of the message list are in the order in which they were
\* created and appended, whatever sends, replies and poll writes interleave.
C3LogOrdering ==
  \A i \in 1..Len(messages), j \in 1..Len(messages) :
     i < j => messages[i].tid < messages[j].tid

\* a poll chain has written the list and a turn was appended after that write
C3Witness ==
  /\ \E k \in 1..Len(sends) : sends[k].chain = "written"
  /\ Len(messages) = Len(StoredHistory) + 1
  /\ messages[Len(messages)].tid > Len(StoredHistory)

\* C4: a poll chain whose session the user has left never writes the list.
C4SwitchCancels ==
  [][\A k \in 1..Len(sends) : ChainWrites(k) => ~sends[k].left]_vars

\* C5: two slots of the message list made for different pending events never
\* end up holding the same created event.
C5NoCrossResolution ==
  \A i1 \in 1..Len(messages), i2 \in 1..Len(messages) :
     (messages[i1].actions # 0 /\ messages[i2].actions # 0) =>
        \A j1 \in 1..Len(acts[messages[i1].actions]),
           j2 \in 1..Len(acts[messages[i2].actions]) :
           LET o1 == orig[messages[i1].actions][j1]
               o2 == orig[messages[i2].actions][j2]
               a1 == acts[messages[i1].actions][j1]
               a2 == acts[messages[i2].actions][j2]
           IN  ( /\ o1.type = PENDING /\ o2.type = PENDING
                 /\ o1.ev # o2.ev
                 /\ a1.type = CREATED /\ a2.type = CREATED )
               => a1.ev # a2.ev

\* every slot that no longer holds what it was made with was made pending
\* and holds a created action
ReplacedOnce ==
  \A r \in 1..Len(acts) : \A j \in 1..Len(acts[r]) :
     [ev |-> acts[r][j].ev, type |-> acts[r][j].type] # orig[r][j]
        => orig[r][j].type = PENDING /\ acts[r][j].type = CREATED

\* C6: a poll overwrites only slots that were made pending and are still
\* pending, and puts a created action there; so no slot is overwritten twice,
\* by the same chain or by another one.
C6ExactlyOnce ==
  [][ /\ ReplacedOnce'
      /\ \A k \in 1..Len(sends) :
           ChainWrites(k) =>
             \A i \in 1..Len(sends[k].snap) :
                sends[k].snap[i].actions # 0 =>
                  \A j \in 1..Len(acts[sends[k].snap[i].actions]) :
                     acts'[messages'[i].actions][j] # acts[sends[k].snap[i].actions][j]
                       => /\ orig[sends[k].snap[i].actions][j].type = PENDING
                          /\ acts[sends[k].snap[i].actions][j].type = PENDING
                          /\ acts'[messages'[i].actions][j].type = CREATED ]_vars

\* a chain is still polling over a list in which a slot has been replaced
C6Witness ==
  \E k \in 1..Len(sends) :
     /\ Running(sends[k])
     /\ \E i \in 1..Len(sends[k].snap) :
          /\ sends[k].snap[i].actions # 0
          /\ \E j \in 1..Len(acts[sends[k].snap[i].actions]) :
               /\ orig[sends[k].snap[i].actions][j].type = PENDING
               /\ acts[sends[k].snap[i].actions][j].type = CREATED

NoTerminal ==
  \A s \in SessionIds : \A h \in 1..Len(hist[s]) :
     \A j \in 1..Len(hist[s][h].actions) : hist[s][h].actions[j].type = PENDING

\* C7: when no terminal action ever appears in the history, every poll chain
\* stops after finitely many polls.
C7BoundedRetry ==
  []NoTerminal => <>[](\A k \in 1..Len(sends) : ~Running(sends[k]))

\* chain k is running over a list that holds the array r
Examines(k, r) ==
  /\ Running(sends[k])
  /\ \E i \in 1..Len(sends[k].snap) : sends[k].snap[i].actions = r

\* C8: a pending action is examined by at most one running poll chain.
C8OnePollPerAction ==
  \A r \in 1..Len(acts) :
     (\E j \in 1..Len(acts[r]) : acts[r][j].type = PENDING)
        => Cardinality({k \in 1..Len(sends) : Examines(k, r)}) <= 1

\* C9: when the POST of send k fails, one assistant turn marked isError is
\* appended at the end of the list, after the user's turn; nothing is sent to
\* the server, no poll chain starts, onNewSession is not called, and the send
\* stays failed.
C9DispatchFailure ==
  [][\A k \in 1..Len(sends) :
       /\ (sends[k].pc = "inflight" /\ sends'[k].pc = "failed") =>
            /\ Len(messages') = Len(messages) + 1
            /\ SubSeq(messages', 1, Len(messages)) = messages
            /\ messages'[Len(messages')].role = "assistant"
            /\ messages'[Len(messages')].isError
            /\ messages'[Len(messages')].tid > sends[k].utid
            /\ Len(sends') = Len(sends)
            /\ sends'[k].chain = "none"
            /\ hist' = hist
            /\ fetches' = fetches /\ dashLoading' = dashLoading
            /\ activeChatId' = activeChatId
       /\ sends[k].pc = "failed" =>
            sends'[k].pc = "failed" /\ sends'[k].chain = "none"]_vars

\* a failed send whose error turn closes the list, right after the user's turn
C9Witness ==
  /\ \E k \in 1..Len(sends) : sends[k].pc = "failed"
  /\ Len(messages) >= 2
  /\ messages[Len(messages)].isError
  /\ messages[Len(messages) - 1].role = "user"

\* C10: an accepted submit appends the user's turn while its request is in
\* flight; when the request succeeds, one assistant turn with the actions of
\* the reply is appended at the end of the list, after that user turn.
C10OptimisticAppend ==
  [][ /\ Len(sends') = Len(sends) + 1 =>
           /\ Len(messages') = Len(messages) + 1
           /\ SubSeq(messages', 1, Len(messages)) = messages
           /\ messages'[Len(messages')].role = "user"
           /\ messages'[Len(messages')].tid = sends'[Len(sends')].utid
           /\ messages'[Len(messages')].content = sends'[Len(sends')].prompt
           /\ sends'[Len(sends')].pc = "inflight"
           /\ hist' = hist
      /\ \A k \in 1..Len(sends) :
           (sends[k].pc = "inflight" /\ sends'[k].pc = "ok") =>
             /\ Len(messages') = Len(messages) + 1
             /\ SubSeq(messages', 1, Len(messages)) = messages
             /\ messages'[Len(messages')].role = "assistant"
             /\ ~messages'[Len(messages')].isError
             /\ messages'[Len(messages')].tid > sends[k].utid
             /\ \E s \in SessionIds :
                  /\ Len(hist'[s]) = Len(hist[s]) + 2
                  /\ LET replied == hist'[s][Len(hist'[s])].actions
                         ref == messages'[Len(messages')].actions
                     IN  IF replied = <<>> THEN ref = 0
                         ELSE ref # 0 /\ acts'[ref] = replied ]_vars

\* a reply with actions closes the list right after the user's turn
C10Witness ==
  /\ \E k \in 1..Len(sends) : sends[k].pc = "ok"
  /\ Len(messages) >= 2
  /\ messages[Len(messages)].role = "assistant"
  /\ messages[Len(messages)].actions # 0
  /\ messages[Len(messages) - 1].role = "user"

\* the sends whose reply was forwarded to onNewSession
Forwarded == {k \in 1..Len(sends) : sends[k].told # NoSession}

\* the POST of send k succeeds in this step
DispatchSucceeds(k) ==
  /\ k \in 1..Len(sends)
  /\ sends[k].pc = "inflight"
  /\ sends'[k].pc = "ok"

\* C11: in one conversation that starts as 'new', onNewSession is called at
\* most once, so never with two different identifiers (no sidebar click is
\* made, so every send belongs to the same conversation).
C11SingleIdentity == Cardinality(Forwarded) <= 1

\* C12: a send made under an assigned sessionId is stored by the server under
\* that identifier and its reply does not call onNewSession; a send made
\* under 'new' forwards the identifier of the response.
C12IdentityImmutable ==
  [][\A k \in 1..Len(sends) :
       DispatchSucceeds(k) =>
         IF sends[k].sid # NewChat
         THEN /\ hist'[sends[k].sid] # hist[sends[k].sid]
              /\ \A t \in SessionIds \ {sends[k].sid} : hist'[t] = hist[t]
              /\ sends'[k].told = NoSession
              /\ fetches' = fetches
              /\ dashLoading' = dashLoading
         ELSE \E s \in SessionIds :
                /\ hist'[s] # hist[s]
                /\ sends'[k].told = s
                /\ fetches'[s] = fetches[s] + 1]_vars

\* a reply to a send made under an assigned identifier has arrived
C12Witness ==
  \E k \in 1..Len(sends) :
     /\ sends[k].pc = "ok"
     /\ sends[k].told = NoSession
     /\ activeChatId \in SessionIds

\* C13: a change of the active session to 'new' empties the list, and once
\* the history load of a newly selected session has settled the list holds
\* no turn loaded from another session's history.
C13SwitchResets ==
  [][ /\ (activeChatId' # activeChatId /\ activeChatId' = NewChat)
           => messages' = <<>>
      /\ \A s \in SessionIds :
           (s = activeChatId /\ loads[s] = 1 /\ loads'[s] = 0) =>
             \A t \in SessionIds \ {s} :
                Tids(messages') \cap Tids(hist[t]) = {} ]_vars

\* C14: a poll whose history request fails does not end the chain: the
\* request of a chain ends either in a write or in a new timer.
C14PollFailureRetried ==
  [][\A k \in 1..Len(sends) :
       (sends[k].chain = "inflight" /\ sends'[k].chain # "inflight")
          => sends'[k].chain \in {"retry", "written"}]_vars

\* the array that position i of chain k's copy refers to after its poll
RefAfterPoll(k, i) ==
  IF sends'[k].chain = "written" THEN messages'[i].actions
  ELSE sends'[k].snap[i].actions

\* C15: a poll that succeeds keeps the length of every actions array of its
\* copy and changes no slot other than the first pending one of the array.
C15ElementWise ==
  [][\A k \in 1..Len(sends) :
       (sends[k].chain = "inflight" /\ sends'[k].chain \in {"retry", "written"}) =>
         \A i \in 1..Len(sends[k].snap) :
            sends[k].snap[i].actions # 0 =>
              /\ Len(acts'[RefAfterPoll(k, i)]) = Len(acts[sends[k].snap[i].actions])
              /\ \A j \in 1..Len(acts[sends[k].snap[i].actions]) :
                   j # FindPendingIndex(acts[sends[k].snap[i].actions])
                     => acts'[RefAfterPoll(k, i)][j] = acts[sends[k].snap[i].actions][j]]_vars

\* a poll has written a list in which an array of two actions had its first
\* slot replaced and kept its second one
C15Witness ==
  /\ \E k \in 1..Len(sends) : sends[k].chain = "written"
  /\ \E i \in 1..Len(messages) :
       /\ messages[i].actions # 0
       /\ Len(acts[messages[i].actions]) = 2
       /\ orig[messages[i].actions][1].type = PENDING
       /\ acts[messages[i].actions][1].type = CREATED
       /\ acts[messages[i].actions][2].type = PENDING

\* the types that end a pending calendar request (rendered at lines 246-348)
Terminals == {CREATED, FAILED, NEEDS_AUTH}

\* One submit and no sidebar click; the calendar request behind a pending
\* action can end in any terminal type.
NextOutcomes ==
  \/ \E input \in Inputs : HandleSendMessage(input)
  \/ \E k \in 1..Len(sends), t \in ReplyTemplates : DispatchSuccess(k, t)
  \/ \E k \in 1..Len(sends) : DispatchFailure(k)
  \/ \E k \in 1..Len(sends) : PollTimerFire(k)
  \/ \E k \in 1..Len(sends) : PollSuccess(k)
  \/ \E k \in 1..Len(sends) : PollFailure(k)
  \/ \E s \in SessionIds, ok \in BOOLEAN : LoadDone(s, ok)
  \/ \E c \in SessionIds, ok \in BOOLEAN : FetchSessionsDone(c, ok)
  \/ \E s \in SessionIds, outcome \in Terminals : \E h \in 1..Len(hist[s]) :
       \E j \in 1..Len(hist[s][h].actions) : ServerResolve(s, h, j, outcome)

InitOutcomes == AuthIdle /\ \E h0 \in InitialHistories : InitWith(h0, MaxSends, 0)

SpecOutcomes == InitOutcomes /\ [][NextOutcomes]_vars

\* Two submits, no sidebar click; every POST that was sent settles.
FairDispatchTwo ==
  /\ SpecTwo
  /\ \A k \in 1..WideSends :
       WF_vars(DispatchFailure(k) \/ \E t \in ReplyTemplates : DispatchSuccess(k, t))

\* the history holds a terminal action with the summary of pendingAct
HasTerminal(history, pendingAct) ==
  \E h \in 1..Len(history) : \E j \in 1..Len(history[h].actions) :
     /\ history[h].actions[j].type \in Terminals
     /\ history[h].actions[j].summary = pendingAct.summary

\* the GET of a poll of chain k returns in this step
PollReturns(k) ==
  /\ k \in 1..Len(sends)
  /\ sends[k].chain = "inflight"
  /\ sends'[k].chain \notin {"inflight", "failed"}

\* the scan of chain k's copy against the history it would fetch now
PollScan(k) == ScanMessages(sends[k].snap, acts, hist[sends[k].chainSid])

\* C16: when the history fetched by a poll holds a terminal action of any
\* type (created, failed, needs_auth) with the summary of the first pending
\* action of a turn of the copy, the poll replaces that action.
C16AllTerminalsResolve ==
  [][\A k \in 1..Len(sends) :
       PollReturns(k) =>
         \A i \in 1..Len(sends[k].snap) :
            (/\ PendingIndex(sends[k].snap[i], acts) # 0
             /\ HasTerminal(hist[sends[k].chainSid],
                            acts[sends[k].snap[i].actions][PendingIndex(sends[k].snap[i], acts)]))
            => /\ sends'[k].chain = "written"
               /\ acts'[messages'[i].actions][PendingIndex(sends[k].snap[i], acts)].type
                    \in Terminals]_vars

\* C17: isLoading set by an accepted send is cleared again, whether the POST
\* succeeds or fails, and while a poll chain is outstanding a non-empty input
\* is accepted as soon as isLoading is false.
C17NeverStalled ==
  /\ isLoading ~> ~isLoading
  /\ [](\A k \in 1..Len(sends) :
          (Running(sends[k]) /\ ~isLoading /\ sendsLeft > 0)
             => ENABLED (\E input \in Inputs : HandleSendMessage(input)))

\* a poll chain is outstanding, the reply has cleared isLoading and the user
\* can still send
C17Witness ==
  \E k \in 1..Len(sends) :
     /\ sends[k].pc = "ok"
     /\ Running(sends[k])
     /\ ~isLoading
     /\ sendsLeft > 0

\* C18: a successful reply that carries a pending action arms the timer of
\* its own chain and of no other, for the session the server stored the
\* exchange under, which is the sessionId of the send when it was assigned.
C18PollTrigger ==
  [][\A k \in 1..Len(sends) :
       (DispatchSucceeds(k) /\ sends'[k].rev # 0) =>
         /\ sends[k].chain = "none"
         /\ sends'[k].chain = "timer"
         /\ \E s \in SessionIds :
              /\ hist'[s] # hist[s]
              /\ sends'[k].chainSid = s
              /\ sends[k].sid # NewChat => s = sends[k].sid
         /\ \A m \in 1..Len(sends) \ {k} : sends'[m].chain = sends[m].chain]_vars

\* the timer of a reply with a pending action is set
C18Witness ==
  \E k \in 1..Len(sends) :
     /\ sends[k].chain = "timer"
     /\ sends[k].rev # 0
     /\ sends[k].chainSid \in SessionIds

\* C19: a poll whose GET succeeds and whose scan replaces nothing sets the
\* timer of one further poll of the same session and writes nothing.
C19RescheduleOnNoMatch ==
  [][\A k \in 1..Len(sends) :
       (PollReturns(k) /\ ~PollScan(k).updated) =>
         /\ sends'[k].chain = "retry"
         /\ sends'[k].chainSid = sends[k].chainSid
         /\ Len(messages') = Len(messages)
         /\ \A m \in 1..Len(sends) \ {k} : sends'[m].chain = sends[m].chain]_vars

\* a poll found nothing to replace and set the timer again
C19Witness ==
  \E k \in 1..Len(sends) :
     /\ sends[k].chain = "retry"
     /\ sends[k].chainSid \in SessionIds

\* C20: a poll whose scan replaces an action sets no timer, and a chain that
\* has written never runs again.
C20StopOnMatch ==
  [][\A k \in 1..Len(sends) :
       /\ (PollReturns(k) /\ PollScan(k).updated) =>
             /\ sends'[k].chain = "written"
             /\ ~Running(sends'[k])
       /\ sends[k].chain = "written" => sends'[k].chain = "written"]_vars

\* a poll has replaced a pending action of the list and its chain is over
C20Witness ==
  /\ \E k \in 1..Len(sends) : sends[k].chain = "written"
  /\ \E i \in 1..Len(messages) :
       /\ messages[i].actions # 0
       /\ \E j \in 1..Len(acts[messages[i].actions]) :
            /\ orig[messages[i].actions][j].type = PENDING
            /\ acts[messages[i].actions][j].type = CREATED

\* the slots of chain k's copy that its write changes
SlotsWritten(k) ==
  {p \in (1..Len(sends[k].snap)) \X (1..2) :
     /\ sends[k].snap[p[1]].actions # 0
     /\ p[2] <= Len(acts[sends[k].snap[p[1]].actions])
     /\ acts'[messages'[p[1]].actions][p[2]] # acts[sends[k].snap[p[1]].actions][p[2]]}

\* C21: a write of a poll replaces one pending action only, the first match
\* met from the most recent turn down; older turns are left as they were.
C21OneReplacementPerScan ==
  [][\A k \in 1..Len(sends) :
       ChainWrites(k) => Cardinality(SlotsWritten(k)) <= 1]_vars

\* C22: the request of a submit carries session_id null exactly when the
\* sessionId prop is 'new' and the prop otherwise, the submitted input as
\* prompt, and as message_history the (role, content) pairs of the list as it
\* was before the user's turn was appended, in the order of the list.
C22SubmitPayload ==
  [][Len(sends') = Len(sends) + 1 =>
       /\ Payload(sends'[Len(sends')]).session_id =
            (IF sessionId = NewChat THEN NoSession ELSE sessionId)
       /\ Payload(sends'[Len(sends')]).prompt = messages'[Len(messages')].content
       /\ Trim(Payload(sends'[Len(sends')]).prompt) # ""
       /\ Len(Payload(sends'[Len(sends')]).message_history) = Len(messages)
       /\ \A i \in 1..Len(messages) :
            Payload(sends'[Len(sends')]).message_history[i] =
              [role |-> messages[i].role, content |-> messages[i].content]]_vars

\* a request is in flight whose message_history holds several turns of an
\* assigned session
C22Witness ==
  \E k \in 1..Len(sends) :
     /\ sends[k].pc = "inflight"
     /\ Len(Payload(sends[k]).message_history) >= 2
     /\ Payload(sends[k]).message_history[1].role # Payload(sends[k]).message_history[2].role
     /\ Payload(sends[k]).session_id \in SessionIds

\* the submit requests that are in flight
InFlight == {k \in 1..Len(sends) : sends[k].pc = "inflight"}

\* C23: at most one submit request is in flight, and a submit made while
\* isLoading is true or with a blank input is not accepted: it changes nothing.
C23SingleDispatch ==
  /\ Cardinality(InFlight) <= 1
  /\ \A input \in Inputs :
       (isLoading \/ Trim(input) = "") => ~ENABLED HandleSendMessage(input)

\* a second request is in flight after the first one has settled
C23Witness ==
  /\ Len(sends) = 2
  /\ sends[1].pc # "inflight"
  /\ sends[2].pc = "inflight"
  /\ isLoading

\* the POST of send k settles in this step, with a reply or with an error
DispatchSettles(k) ==
  /\ k \in 1..Len(sends)
  /\ sends[k].pc = "inflight"
  /\ sends'[k].pc # "inflight"

\* C24: when the sessionId prop is no longer the one the prompt was submitted
\* under, the settling of the POST appends nothing to the list that is shown
\* and does not start the parent's change of the active session.
C24RepliesStayInSession ==
  [][\A k \in 1..Len(sends) :
       (DispatchSettles(k) /\ sends[k].sid # sessionId) =>
          /\ Len(messages') = Len(messages)
          /\ fetches' = fetches]_vars

\* a fetchChatHistory response for session s arrives in this step
LoadSettles(s) == loads'[s] = loads[s] - 1

\* C25: a history response for a session that is no longer the active one
\* does not change the list, and once no load is in flight the list holds no
\* turn of the history of a session other than the active one.
C25HistoryLoadRace ==
  [][\A s \in SessionIds :
       (LoadSettles(s) /\ sessionId \in SessionIds) =>
          /\ s # sessionId => Tids(messages') = Tids(messages)
          /\ (\A t \in SessionIds : loads'[t] = 0) =>
                \A t \in SessionIds \ {sessionId} :
                   Tids(messages') \cap Tids(hist[t]) = {}]_vars

\* the list holds an action that is still pending
PendingShown(list, heap) ==
  \E i \in 1..Len(list) :
     /\ list[i].actions # 0
     /\ \E j \in 1..Len(heap[list[i].actions]) : heap[list[i].actions][j].type = PENDING

\* C26: when a poll writes the list and the list still holds a pending action
\* afterwards, a poll remains scheduled (no poll of any chain having failed).
C26RemainingKeepPolled ==
  [][\A k \in 1..Len(sends) :
       ( /\ ChainWrites(k)
         /\ PendingShown(messages', acts')
         /\ \A m \in 1..Len(sends) : sends'[m].chain # "failed" )
       => \E m \in 1..Len(sends) : Running(sends'[m])]_vars

\* C27: when the list never holds a pending action, every poll chain stops:
\* from some point on no timer is set and no history request is in flight.
C27NoPollWithoutPending ==
  [](~PendingShown(messages, acts))
     => <>[](\A k \in 1..Len(sends) : ~Running(sends[k]))

\* the fetchChatSessions awaited by handleNewSession(c) returns in this step
NewSessionCompletes(c) == fetches'[c] = fetches[c] - 1

\* C28: when handleNewSession(id) completes, activeChatId is id, whatever
\* the awaited fetchChatSessions selected and also when that fetch failed.
C28NewSessionActive ==
  [][\A c \in SessionIds : NewSessionCompletes(c) => activeChatId' = c]_vars

\* handleNewSession has completed for a session that is not the first of the
\* list the server returned, or after a failed fetch
C28Witness ==
  /\ activeChatId \in SessionIds
  /\ \E k \in 1..Len(sends) : sends[k].told = activeChatId
  /\ fetches[activeChatId] = 0
  /\ \/ chatSessions = <<>>
     \/ chatSessions[1] # activeChatId

\* no fetchChatSessions is outstanding
DashboardSettled == ~dashLoading /\ \A c \in SessionIds : fetches[c] = 0

\* C29: once the Dashboard has settled, activeChatId is 'new' or the
\* identifier of a session of chatSessions.
C29ActiveValid ==
  DashboardSettled => (activeChatId = NewChat \/ activeChatId \in Range(chatSessions))

\* no loadUser request is in flight
AuthSettled == \A t \in Range(Tokens) : userLoads[t] = 0

\* C30: once every user load has settled, the token in memory is the one in
\* localStorage, no user is set while the token is null, and loading is false.
C30AuthConsistency ==
  AuthSettled =>
     /\ token = storedToken
     /\ token = NoToken => user = NoUser
     /\ ~loading

====
